---- MODULE Spec2Model ----
(***************************************************************************)
(* Model of the Bogleheads lazy-portfolio simulator:                       *)
(*   csv_data_reader.load_ticker_data / get_ticker_data_for_period /       *)
(*   get_portfolio_data, app.simulate_growth and the max-drawdown          *)
(*   statistic of app.main (Portfolio Comparison).                         *)
(*                                                                         *)
(* Numbers are exact rationals <<n, d>> in lowest terms with d > 0.        *)
(* <<0, 0>> is NaN, <<1, 0>> and <<-1, 0>> are +inf and -inf, as float     *)
(* division produces them.  A date is a pandas Timestamp, encoded as       *)
(* (year * 12 + month - 1) * 32 + day, so that date order is integer       *)
(* order.                                                                  *)
(***************************************************************************)
EXTENDS Integers, Sequences, FiniteSets, TLC

VARIABLES
    pc,                     \* position of the running call
    \* ---- csv_data_reader: the data files and get_portfolio_data --------
    files,                  \* historical_data/: file name -> [exists, rows]
    portfolio_name,         \* argument of get_portfolio_data
    start_date, end_date,   \* argument of get_portfolio_data
    todo,                   \* tickers the loop of get_portfolio_data has still to visit
    result,                 \* local `result` of get_portfolio_data
    portfolio_data,         \* value returned by get_portfolio_data / argument of simulate_growth
    \* ---- app.simulate_growth -----------------------------------------
    initial_investment, monthly_contribution,
    investments,            \* the `investments` frame, one record per row
    current_date,           \* loop variable of the month walk
    last_date,              \* local `end_date` of simulate_growth
    value, i,               \* locals of the value loop
    growth_data,            \* what simulate_growth gave back
    \* ---- app.main, Portfolio Comparison statistics ---------------------
    max_drawdown,
    \* ---- app.main, Portfolio Comparison ------------------------------
    portfolios_to_compare,  \* the multiselect's value, in selection order
    pending,                \* names the running for-loop has still to visit
    fig,                    \* traces added to the comparison chart
    stats_data              \* rows of the statistics table

vars == <<pc, files, portfolio_name, start_date, end_date, todo, result,
          portfolio_data, initial_investment, monthly_contribution,
          investments, current_date, last_date, value, i, growth_data,
          max_drawdown, portfolios_to_compare, pending, fig, stats_data>>

cmpvars == <<portfolios_to_compare, pending, fig, stats_data>>

----------------------------------------------------------------------------
(* Float arithmetic, kept exact.                                           *)

Abs(x) == IF x < 0 THEN -x ELSE x

RECURSIVE GCD(_, _)
GCD(a, b) == IF b = 0 THEN a ELSE GCD(b, a % b)

NaN == <<0, 0>>

IsNaN(x) == x = NaN

Rat(n, d) ==
    IF d = 0
    THEN (IF n = 0 THEN NaN ELSE IF n > 0 THEN <<1, 0>> ELSE <<-1, 0>>)
    ELSE LET g == GCD(Abs(n), Abs(d))
             s == IF d < 0 THEN -1 ELSE 1
         IN  <<(s * n) \div g, (s * d) \div g>>

Num(n) == <<n, 1>>

RAdd(a, b) ==
    IF IsNaN(a) \/ IsNaN(b) THEN NaN
    ELSE Rat(a[1] * b[2] + b[1] * a[2], a[2] * b[2])

RSub(a, b) == RAdd(a, <<-b[1], b[2]>>)

RMul(a, b) ==
    IF IsNaN(a) \/ IsNaN(b) THEN NaN
    ELSE Rat(a[1] * b[1], a[2] * b[2])

RDiv(a, b) ==
    IF IsNaN(a) \/ IsNaN(b) THEN NaN
    ELSE Rat(a[1] * b[2], a[2] * b[1])

\* a <= b; any comparison with NaN is false
RLe(a, b) == ~IsNaN(a) /\ ~IsNaN(b) /\ a[1] * b[2] <= b[1] * a[2]

RLt(a, b) == ~IsNaN(a) /\ ~IsNaN(b) /\ a[1] * b[2] < b[1] * a[2]

----------------------------------------------------------------------------
(* pandas Timestamp and DateOffset.                                        *)

Timestamp(year, month, day) == (year * 12 + (month - 1)) * 32 + day

Year(ts) == (ts \div 32) \div 12

Month(ts) == ((ts \div 32) % 12) + 1

Day(ts) == ts % 32

\* ts + pd.DateOffset(months=1); every modelled day exists in every month
AddMonth(ts) ==
    IF Month(ts) = 12
    THEN Timestamp(Year(ts) + 1, 1, Day(ts))
    ELSE Timestamp(Year(ts), Month(ts) + 1, Day(ts))

\* lines 55-59 of simulate_growth: the first day of the month after ts
FirstOfNextMonth(ts) ==
    IF Month(ts) = 12
    THEN Timestamp(Year(ts) + 1, 1, 1)
    ELSE Timestamp(Year(ts), Month(ts) + 1, 1)

----------------------------------------------------------------------------
(* Values shared by the calls.                                             *)

None == [none |-> TRUE, rows |-> <<>>]

Frame(rows) == [none |-> FALSE, rows |-> rows]

Idle == [none |-> TRUE, rows |-> <<>>, raised |-> "idle"]

Returned(frame) == [none |-> frame.none, rows |-> frame.rows, raised |-> ""]

Raised(name) == [none |-> TRUE, rows |-> <<>>, raised |-> name]

----------------------------------------------------------------------------
(* app.simulate_growth                                                     *)

MaxLen == 3          \* longest return series drawn for simulate_growth
NumMonths == 5       \* calendar months the drawn dates span, from 2023-11 on

SeqSum(s) ==
    LET F[k \in 0..Len(s)] == IF k = 0 THEN Num(0) ELSE RAdd(F[k - 1], s[k])
    IN  F[Len(s)]

\* Series.cumsum()
CumSum(s) == [k \in 1..Len(s) |-> SeqSum(SubSeq(s, 1, k))]

\* variant: each row compounds the returns before it, not its own
CumProd100Lagged(s) ==
    LET F[k \in 0..Len(s)] ==
            IF k = 0 THEN Num(1) ELSE RMul(F[k - 1], RAdd(Num(1), s[k]))
    IN  [k \in 1..Len(s) |-> RMul(F[k - 1], Num(100))]

\* (1 + returns).cumprod() * 100, line 126 of csv_data_reader
CumProd100(s) ==
    LET F[k \in 0..Len(s)] ==
            IF k = 0 THEN Num(1) ELSE RMul(F[k - 1], RAdd(Num(1), s[k]))
    IN  [k \in 1..Len(s) |-> RMul(F[k], Num(100))]

Column(rows, name) == [k \in 1..Len(rows) |-> rows[k][name]]

\* variant: an empty frame is treated like None
EntryOutcomeEmptyAsNone(data) ==
    IF data.none \/ Len(data.rows) = 0 THEN "None" ELSE "run"

\* lines 35-51: None in, None out; .iloc[0] and .index[0] of an empty frame
\* raise IndexError; otherwise the body runs
EntryOutcome(data) ==
    IF data.none THEN "None"
    ELSE IF Len(data.rows) = 0 THEN "IndexError"
    ELSE "run"

\* variant: the initial investment is written to the whole column
InitialFrameBroadcast(rows, initial) ==
    [k \in 1..Len(rows) |->
        [date |-> rows[k].date,
         return |-> rows[k].portfolio_return,
         contribution |-> Num(initial),
         cumulative_contribution |-> NaN,
         portfolio_value |-> NaN]]

\* lines 42-47: the investments frame with the initial investment on row 0
InitialFrame(rows, initial) ==
    [k \in 1..Len(rows) |->
        [date |-> rows[k].date,
         return |-> rows[k].portfolio_return,
         contribution |-> IF k = 1 THEN Num(initial) ELSE Num(0),
         cumulative_contribution |-> NaN,
         portfolio_value |-> NaN]]

\* lines 62-65: the index labels inside [next_month, next_month + 1 month)
MonthDates(index, next_month) ==
    SelectSeq(index, LAMBDA d : d >= next_month /\ d < AddMonth(next_month))

\* variant: the month's last date gets the contribution
AssignContributionLast(inv, month_dates, amount) ==
    IF Len(month_dates) > 0 /\ month_dates[Len(month_dates)] # inv[1].date
    THEN [k \in 1..Len(inv) |->
            IF inv[k].date = month_dates[Len(month_dates)]
            THEN [inv[k] EXCEPT !.contribution = Num(amount)]
            ELSE inv[k]]
    ELSE inv

\* lines 68-69: the month's first date gets the contribution, unless it is
\* the frame's first date
AssignContribution(inv, month_dates, amount) ==
    IF Len(month_dates) > 0 /\ month_dates[1] # inv[1].date
    THEN [k \in 1..Len(inv) |->
            IF inv[k].date = month_dates[1]
            THEN [inv[k] EXCEPT !.contribution = Num(amount)]
            ELSE inv[k]]
    ELSE inv

\* variant: the walk resumes at the first day of the month just examined,
\* less one month
NextCurrentDateStuck(next_month) ==
    IF Month(next_month) = 1
    THEN Timestamp(Year(next_month) - 1, 12, 1)
    ELSE Timestamp(Year(next_month), Month(next_month) - 1, 1)

\* line 72: where the walk resumes
NextCurrentDate(next_month) == AddMonth(next_month)

\* lines 75 and 78: the running total, and the value column at 0.0
WithCumulative(inv) ==
    LET c == CumSum(Column(inv, "contribution"))
    IN  [k \in 1..Len(inv) |->
            [inv[k] EXCEPT !.cumulative_contribution = c[k],
                           !.portfolio_value = Num(0)]]

\* variant: the contribution is added before the day's growth
GrowValueContributionFirst(v, ret, contribution) ==
    RMul(RAdd(v, contribution), RAdd(Num(1), ret))

\* lines 84-86: one day of growth, then that day's contribution
GrowValue(v, ret, contribution) ==
    RAdd(RMul(v, RAdd(Num(1), ret)), contribution)

SimCall ==
    /\ UNCHANGED cmpvars
    /\ pc = "sim_call"
    /\ LET o == EntryOutcome(portfolio_data) IN
         IF o = "None"
         THEN /\ growth_data' = Returned(None)
              /\ pc' = "sim_done"
              /\ UNCHANGED <<investments, current_date, last_date>>
         ELSE IF o = "IndexError"
         THEN /\ growth_data' = Raised("IndexError")
              /\ pc' = "sim_done"
              /\ UNCHANGED <<investments, current_date, last_date>>
         ELSE /\ investments' = InitialFrame(portfolio_data.rows, initial_investment)
              /\ current_date' = portfolio_data.rows[1].date
              /\ last_date' = portfolio_data.rows[Len(portfolio_data.rows)].date
              /\ pc' = "sim_months"
              /\ UNCHANGED growth_data
    /\ UNCHANGED <<files, portfolio_name, start_date, end_date, todo, result,
                   portfolio_data, initial_investment, monthly_contribution,
                   value, i, max_drawdown>>

\* one iteration of `while current_date <= end_date`
MonthStep ==
    /\ UNCHANGED cmpvars
    /\ pc = "sim_months"
    /\ current_date <= last_date
    /\ LET next_month == FirstOfNextMonth(current_date)
           month_dates == MonthDates(Column(investments, "date"), next_month)
       IN  /\ investments' =
                 AssignContribution(investments, month_dates, monthly_contribution)
           /\ current_date' = NextCurrentDate(next_month)
    /\ UNCHANGED <<pc, files, portfolio_name, start_date, end_date, todo, result,
                   portfolio_data, initial_investment, monthly_contribution,
                   last_date, value, i, growth_data, max_drawdown>>

\* the loop exits; lines 75-79
MonthsDone ==
    /\ UNCHANGED cmpvars
    /\ pc = "sim_months"
    /\ current_date > last_date
    /\ investments' = WithCumulative(investments)
    /\ value' = Num(initial_investment)
    /\ i' = 0
    /\ pc' = "sim_values"
    /\ UNCHANGED <<files, portfolio_name, start_date, end_date, todo, result,
                   portfolio_data, initial_investment, monthly_contribution,
                   current_date, last_date, growth_data, max_drawdown>>

\* one iteration of `for i in range(len(investments))`
ValueStep ==
    /\ UNCHANGED cmpvars
    /\ pc = "sim_values"
    /\ i < Len(investments)
    /\ LET row == investments[i + 1]
           v == IF i > 0 THEN GrowValue(value, row.return, row.contribution)
                ELSE value
       IN  /\ value' = v
           /\ investments' = [investments EXCEPT ![i + 1].portfolio_value = v]
    /\ i' = i + 1
    /\ UNCHANGED <<pc, files, portfolio_name, start_date, end_date, todo, result,
                   portfolio_data, initial_investment, monthly_contribution,
                   current_date, last_date, growth_data, max_drawdown>>

\* line 90
SimReturn ==
    /\ UNCHANGED cmpvars
    /\ pc = "sim_values"
    /\ i = Len(investments)
    /\ growth_data' = Returned(Frame(investments))
    /\ pc' = "sim_done"
    /\ UNCHANGED <<files, portfolio_name, start_date, end_date, todo, result,
                   portfolio_data, initial_investment, monthly_contribution,
                   investments, current_date, last_date, value, i, max_drawdown>>

(* The arguments simulate_growth is called with.                           *)

\* the k-th calendar month counted from November 2023, on the given day
MonthDate(k, day) ==
    Timestamp(2023 + ((10 + k) \div 12), ((10 + k) % 12) + 1, day)

SimDates == {MonthDate(k, day) : k \in 0..(NumMonths - 1), day \in {1, 15}}

\* the members of a set of dates in ascending order
RECURSIVE Sorted(_)
Sorted(S) ==
    IF S = {} THEN <<>>
    ELSE LET m == CHOOSE x \in S : \A y \in S : x <= y
         IN  <<m>> \o Sorted(S \ {m})

ReturnValues == {Rat(-1, 2), Rat(1, 10)}

\* a frame as get_portfolio_data returns it, from its dates and returns
PortfolioFrame(dates, returns) ==
    LET c == CumProd100(returns)
    IN  Frame([k \in 1..Len(dates) |->
                 [date |-> dates[k],
                  portfolio_return |-> returns[k],
                  cumulative_return |-> c[k]]])

\* 13 consecutive months, one date a month, flat returns
ThirteenMonths ==
    PortfolioFrame([k \in 1..13 |-> MonthDate(k - 1, 15)], [k \in 1..13 |-> Num(0)])

SimInputs ==
    {None, ThirteenMonths} \cup
    UNION {{PortfolioFrame(Sorted(D), r) : r \in [1..Cardinality(D) -> ReturnValues]}
           : D \in {S \in SUBSET SimDates : Cardinality(S) <= MaxLen}}

InitialInvestments == {0, 10000}

MonthlyContributions == {-500, 0, 500}

NoFiles == <<>>

SimInit ==
    /\ portfolios_to_compare = <<>>
    /\ pending = <<>>
    /\ fig = <<>>
    /\ stats_data = <<>>
    /\ pc = "sim_call"
    /\ portfolio_data \in SimInputs
    /\ initial_investment \in InitialInvestments
    /\ monthly_contribution \in MonthlyContributions
    /\ investments = <<>>
    /\ current_date = 0
    /\ last_date = 0
    /\ value = NaN
    /\ i = 0
    /\ growth_data = Idle
    /\ files = NoFiles
    /\ portfolio_name = ""
    /\ start_date = 0
    /\ end_date = 0
    /\ todo = <<>>
    /\ result = None
    /\ max_drawdown = NaN

SimNext == SimCall \/ MonthStep \/ MonthsDone \/ ValueStep \/ SimReturn

SimSpec == SimInit /\ [][SimNext]_vars

----------------------------------------------------------------------------
(* portfolio_definitions                                                   *)

file_mapping ==
    [t \in {"VT", "BND", "VTI", "VXUS", "TIP", "ITOT", "IXUS"} |->
        CASE t = "VT"   -> "HistoricalPrices_VT.csv"
          [] t = "BND"  -> "HistoricalPrices_VBTLX.csv"
          [] t = "VTI"  -> "HistoricalPrices_VTSAX.csv"
          [] t = "VXUS" -> "HistoricalPrices_VTIAX.csv"
          [] t = "TIP"  -> "HistoricalPrices_VAIPX.csv"
          [] t = "ITOT" -> "HistoricalPrices_VTSAX.csv"
          [] t = "IXUS" -> "HistoricalPrices_VTIAX.csv"]

Holding(t, hundredths) == [ticker |-> t, weight |-> Rat(hundredths, 100)]

\* each portfolio's (ticker, weight) pairs in the order the dict lists them
portfolios ==
    [n \in {"Two-fund Portfolio",
            "Taylor Larimore's Three-Fund Portfolio",
            "Scott Burns' Margarita Portfolio",
            "Rick Ferri's Lazy Three-Fund Portfolio"} |->
        CASE n = "Two-fund Portfolio" ->
                <<Holding("VT", 60), Holding("BND", 40)>>
          [] n = "Taylor Larimore's Three-Fund Portfolio" ->
                <<Holding("VTI", 34), Holding("VXUS", 33), Holding("BND", 33)>>
          [] n = "Scott Burns' Margarita Portfolio" ->
                <<Holding("ITOT", 34), Holding("IXUS", 33), Holding("TIP", 33)>>
          [] n = "Rick Ferri's Lazy Three-Fund Portfolio" ->
                <<Holding("VTI", 40), Holding("VXUS", 20), Holding("BND", 40)>>]

----------------------------------------------------------------------------
(* csv_data_reader                                                         *)

MaxRows == 3         \* most rows drawn for a data file
NumDays == 3         \* trading days the drawn files cover, from 2024-01-02 on

Missing == [exists |-> FALSE, rows |-> <<>>]

\* df.sort_index(): rows in ascending date order
RECURSIVE SortIndex(_)
SortIndex(rows) ==
    IF rows = <<>> THEN <<>>
    ELSE LET k == CHOOSE j \in 1..Len(rows) :
                     \A l \in 1..Len(rows) : rows[j].date <= rows[l].date
         IN  <<rows[k]>> \o
             SortIndex(SubSeq(rows, 1, k - 1) \o SubSeq(rows, k + 1, Len(rows)))

\* df['Close'].pct_change(): absent on the first row
PctChange(rows) ==
    [k \in 1..Len(rows) |->
        IF k = 1 THEN NaN
        ELSE RSub(RDiv(Num(rows[k].close), Num(rows[k - 1].close)), Num(1))]

load_ticker_data(fs, ticker) ==
    IF ticker \notin DOMAIN file_mapping THEN None
    ELSE IF ~fs[file_mapping[ticker]].exists THEN None
    ELSE LET df == SortIndex(fs[file_mapping[ticker]].rows)
             r == PctChange(df)
         IN  Frame([k \in 1..Len(df) |->
                      [date |-> df[k].date, close |-> df[k].close,
                       daily_return |-> r[k]]])

\* both dates are always given by get_portfolio_data
get_ticker_data_for_period(fs, ticker, start, end) ==
    LET df == load_ticker_data(fs, ticker)
    IN  IF df.none THEN None
        ELSE Frame(SelectSeq(df.rows, LAMBDA r : r.date >= start /\ r.date <= end))

\* variant: the weight is not applied
WeightedColumnUnweighted(ticker_data, weight) ==
    [k \in 1..Len(ticker_data.rows) |->
        [date |-> ticker_data.rows[k].date,
         value |-> ticker_data.rows[k].daily_return]]

\* line 111: ticker_data['daily_return'] * weight
WeightedColumn(ticker_data, weight) ==
    [k \in 1..Len(ticker_data.rows) |->
        [date |-> ticker_data.rows[k].date,
         value |-> RMul(ticker_data.rows[k].daily_return, weight)]]

\* the column's value on a date, NaN where the column has no such date
ValueOn(column, date) ==
    IF \E k \in 1..Len(column) : column[k].date = date
    THEN column[CHOOSE k \in 1..Len(column) : column[k].date = date].value
    ELSE NaN

\* lines 113-117: the first column becomes the frame; a later one is joined
\* onto the frame's own index (DataFrame.join, how='left')
JoinColumn(res, ticker, column) ==
    IF res.none
    THEN Frame([k \in 1..Len(column) |->
                  [date |-> column[k].date,
                   weighted |-> (ticker :> column[k].value)]])
    ELSE Frame([k \in 1..Len(res.rows) |->
                  [date |-> res.rows[k].date,
                   weighted |-> (ticker :> ValueOn(column, res.rows[k].date))
                                   @@ res.rows[k].weighted]])

\* variant: a ticker without data aborts the aggregation
JoinTickerAbort(res, fs, holding, start, end) ==
    LET ticker_data == get_ticker_data_for_period(fs, holding.ticker, start, end)
    IN  IF ticker_data.none THEN None
        ELSE JoinColumn(res, holding.ticker,
                        WeightedColumn(ticker_data, holding.weight))

\* lines 104-117: the body of the loop over the portfolio's tickers
JoinTicker(res, fs, holding, start, end) ==
    LET ticker_data == get_ticker_data_for_period(fs, holding.ticker, start, end)
    IN  IF ticker_data.none THEN res
        ELSE JoinColumn(res, holding.ticker,
                        WeightedColumn(ticker_data, holding.weight))

\* .sum(axis=1): NaN cells are skipped, a row of NaN sums to 0
RECURSIVE RowSum(_)
RowSum(w) ==
    IF DOMAIN w = {} THEN Num(0)
    ELSE LET t == CHOOSE x \in DOMAIN w : TRUE
             rest == RowSum([x \in DOMAIN w \ {t} |-> w[x]])
         IN  IF IsNaN(w[t]) THEN rest ELSE RAdd(w[t], rest)

\* lines 123-126
WithReturns(rows) ==
    LET pr == [k \in 1..Len(rows) |-> RowSum(rows[k].weighted)]
        cr == CumProd100(pr)
    IN  [k \in 1..Len(rows) |->
            [date |-> rows[k].date, weighted |-> rows[k].weighted,
             portfolio_return |-> pr[k], cumulative_return |-> cr[k]]]

\* lines 91-99
GpdCall ==
    /\ UNCHANGED cmpvars
    /\ pc = "gpd_call"
    /\ IF portfolio_name \notin DOMAIN portfolios
       THEN /\ portfolio_data' = None
            /\ pc' = "gpd_done"
            /\ UNCHANGED <<todo, result>>
       ELSE /\ todo' = portfolios[portfolio_name]
            /\ result' = None
            /\ pc' = "gpd_loop"
            /\ UNCHANGED portfolio_data
    /\ UNCHANGED <<files, portfolio_name, start_date, end_date,
                   initial_investment, monthly_contribution, investments,
                   current_date, last_date, value, i, growth_data, max_drawdown>>

\* one iteration of `for ticker, weight in portfolio.items()`
GpdTicker ==
    /\ UNCHANGED cmpvars
    /\ pc = "gpd_loop"
    /\ todo # <<>>
    /\ result' = JoinTicker(result, files, Head(todo), start_date, end_date)
    /\ todo' = Tail(todo)
    /\ UNCHANGED <<pc, files, portfolio_name, start_date, end_date, portfolio_data,
                   initial_investment, monthly_contribution, investments,
                   current_date, last_date, value, i, growth_data, max_drawdown>>

\* lines 119-128
GpdReturn ==
    /\ UNCHANGED cmpvars
    /\ pc = "gpd_loop"
    /\ todo = <<>>
    /\ portfolio_data' = IF result.none THEN None
                         ELSE Frame(WithReturns(result.rows))
    /\ pc' = "gpd_done"
    /\ UNCHANGED <<files, portfolio_name, start_date, end_date, todo, result,
                   initial_investment, monthly_contribution, investments,
                   current_date, last_date, value, i, growth_data, max_drawdown>>

(* The data files and the arguments get_portfolio_data is called with.     *)

AggDates == {Timestamp(2024, 1, 1 + k) : k \in 1..NumDays}

Closes == {1, 2}

\* a file lists its rows newest first
RECURSIVE Reverse(_)
Reverse(s) == IF s = <<>> THEN <<>> ELSE Reverse(Tail(s)) \o <<Head(s)>>

FileWith(dates, closes) ==
    [exists |-> TRUE,
     rows |-> Reverse([k \in 1..Len(dates) |->
                         [date |-> dates[k], close |-> closes[k]]])]

FileOptions ==
    {Missing} \cup
    UNION {{FileWith(Sorted(D), c) : c \in [1..Cardinality(D) -> Closes]}
           : D \in {S \in SUBSET AggDates : Cardinality(S) <= MaxRows}}

FileNames == {file_mapping[t] : t \in DOMAIN file_mapping}

\* the files behind the Two-fund Portfolio
DrawnFiles == {"HistoricalPrices_VT.csv", "HistoricalPrices_VBTLX.csv"}

ExampleDates ==
    <<Timestamp(2024, 1, 2), Timestamp(2024, 1, 3), Timestamp(2024, 1, 4)>>

\* VT returns [-, 0.01, 0.02] and BND returns [-, 0.00, -0.01]
ExampleFiles ==
    [f \in FileNames |->
        IF f = "HistoricalPrices_VT.csv"
        THEN FileWith(ExampleDates, <<10000, 10100, 10302>>)
        ELSE IF f = "HistoricalPrices_VBTLX.csv"
        THEN FileWith(ExampleDates, <<10000, 10000, 9900>>)
        ELSE Missing]

\* a catalogued portfolio and a name the catalogue does not hold
RequestedPortfolios == {"Two-fund Portfolio", "Permanent Portfolio"}

\* the files behind the first two tickers of Rick Ferri's portfolio
DrawnThreeFundFiles == {"HistoricalPrices_VTSAX.csv", "HistoricalPrices_VTIAX.csv"}

\* its third file: absent, or a row on every day
BondFileOptions ==
    {Missing, FileWith(Sorted(AggDates), [k \in 1..NumDays |-> 1 + (k % 2)])}

AggInit ==
    /\ portfolios_to_compare = <<>>
    /\ pending = <<>>
    /\ fig = <<>>
    /\ stats_data = <<>>
    /\ pc = "gpd_call"
    /\ \/ /\ portfolio_name \in RequestedPortfolios
          /\ \/ \E drawn \in [DrawnFiles -> FileOptions] :
                   files = [f \in FileNames |->
                              IF f \in DrawnFiles THEN drawn[f] ELSE Missing]
             \/ files = ExampleFiles
       \/ /\ portfolio_name = "Rick Ferri's Lazy Three-Fund Portfolio"
          /\ \E drawn \in [DrawnThreeFundFiles -> FileOptions], bond \in BondFileOptions :
                files = [f \in FileNames |->
                           IF f \in DrawnThreeFundFiles THEN drawn[f]
                           ELSE IF f = "HistoricalPrices_VBTLX.csv" THEN bond
                           ELSE Missing]
    /\ start_date \in AggDates
    /\ end_date \in AggDates
    /\ todo = <<>>
    /\ result = None
    /\ portfolio_data = None
    /\ initial_investment = 0
    /\ monthly_contribution = 0
    /\ investments = <<>>
    /\ current_date = 0
    /\ last_date = 0
    /\ value = NaN
    /\ i = 0
    /\ growth_data = Idle
    /\ max_drawdown = NaN

AggNext == GpdCall \/ GpdTicker \/ GpdReturn

AggSpec == AggInit /\ [][AggNext]_vars

----------------------------------------------------------------------------
(* app.main, Portfolio Comparison: the max-drawdown statistic              *)

MaxObs == 3          \* longest series drawn for the statistics

\* Series.cummax()
CumMax(s) ==
    LET F[k \in 1..Len(s)] ==
            IF k = 1 THEN s[1]
            ELSE IF RLe(s[k], F[k - 1]) THEN F[k - 1] ELSE s[k]
    IN  [k \in 1..Len(s) |-> F[k]]

\* variant: .max() in place of .min()
SeriesMinAsMax(s) ==
    LET F[k \in 0..Len(s)] ==
            IF k = 0 THEN NaN
            ELSE IF IsNaN(s[k]) THEN F[k - 1]
            ELSE IF IsNaN(F[k - 1]) THEN s[k]
            ELSE IF RLe(s[k], F[k - 1]) THEN F[k - 1] ELSE s[k]
    IN  F[Len(s)]

\* Series.min(): NaN entries are skipped; NaN when nothing is left
SeriesMin(s) ==
    LET F[k \in 0..Len(s)] ==
            IF k = 0 THEN NaN
            ELSE IF IsNaN(s[k]) THEN F[k - 1]
            ELSE IF IsNaN(F[k - 1]) THEN s[k]
            ELSE IF RLe(s[k], F[k - 1]) THEN s[k] ELSE F[k - 1]
    IN  F[Len(s)]

\* line 345: (cumulative_return / cumulative_return.cummax() - 1).min()
MaxDrawdown(cumulative_return) ==
    LET peak == CumMax(cumulative_return)
    IN  SeriesMin([k \in 1..Len(cumulative_return) |->
                     RSub(RDiv(cumulative_return[k], peak[k]), Num(1))])

\* lines 338-345 for one portfolio of the comparison
ComputeStats ==
    /\ UNCHANGED cmpvars
    /\ pc = "stats_call"
    /\ max_drawdown' =
          IF portfolio_data.none THEN max_drawdown
          ELSE MaxDrawdown(Column(portfolio_data.rows, "cumulative_return"))
    /\ pc' = "stats_done"
    /\ UNCHANGED <<files, portfolio_name, start_date, end_date, todo, result,
                   portfolio_data, initial_investment, monthly_contribution,
                   investments, current_date, last_date, value, i, growth_data>>

StatReturns == {Rat(-3, 2), Num(-1), Rat(-1, 2), Num(0), Num(1)}

StatsInputs ==
    {None} \cup
    UNION {{PortfolioFrame([k \in 1..n |-> Timestamp(2024, 1, 1 + k)], r)
              : r \in [1..n -> StatReturns]} : n \in 1..MaxObs}

StatsInit ==
    /\ portfolios_to_compare = <<>>
    /\ pending = <<>>
    /\ fig = <<>>
    /\ stats_data = <<>>
    /\ pc = "stats_call"
    /\ portfolio_data \in StatsInputs
    /\ max_drawdown = NaN
    /\ files = NoFiles
    /\ portfolio_name = ""
    /\ start_date = 0
    /\ end_date = 0
    /\ todo = <<>>
    /\ result = None
    /\ initial_investment = 0
    /\ monthly_contribution = 0
    /\ investments = <<>>
    /\ current_date = 0
    /\ last_date = 0
    /\ value = NaN
    /\ i = 0
    /\ growth_data = Idle

StatsNext == ComputeStats

StatsSpec == StatsInit /\ [][StatsNext]_vars

----------------------------------------------------------------------------
(* app.main, Portfolio Comparison: the "Compare Portfolios" button         *)

MaxSelected == 3     \* most portfolios drawn for one comparison

\* the loop of get_portfolio_data run to its end
RECURSIVE JoinAll(_, _, _, _, _)
JoinAll(res, fs, hs, start, end) ==
    IF hs = <<>> THEN res
    ELSE JoinAll(JoinTicker(res, fs, Head(hs), start, end), fs, Tail(hs), start, end)

\* one whole call of get_portfolio_data
get_portfolio_data(fs, name, start, end) ==
    IF name \notin DOMAIN portfolios THEN None
    ELSE LET res == JoinAll(None, fs, portfolios[name], start, end)
         IN  IF res.none THEN None ELSE Frame(WithReturns(res.rows))

\* lines 307-313: a trace for the portfolio, if it has data
AddTrace(traces, name, data) ==
    IF data.none THEN traces
    ELSE Append(traces, [name |-> name, y |-> Column(data.rows, "cumulative_return")])

\* variant: the row is put in front of the rows collected so far
AppendStatsFirst(rows, name, data) ==
    IF data.none THEN rows
    ELSE <<[Portfolio |-> name,
            max_drawdown |-> MaxDrawdown(Column(data.rows, "cumulative_return"))]>>
         \o rows

\* lines 338-353: a statistics row for the portfolio, if it has data (of the
\* four statistics the drawdown is kept; the others need a 252nd power and a
\* square root)
AppendStats(rows, name, data) ==
    IF data.none THEN rows
    ELSE Append(rows,
                [Portfolio |-> name,
                 max_drawdown |-> MaxDrawdown(Column(data.rows, "cumulative_return"))])

\* lines 291-297
CompareClick ==
    /\ pc = "cmp_call"
    /\ IF portfolios_to_compare = <<>>
       THEN /\ pc' = "cmp_done"
            /\ UNCHANGED <<pending, fig>>
       ELSE /\ fig' = <<>>
            /\ pending' = portfolios_to_compare
            /\ pc' = "cmp_traces"
    /\ UNCHANGED <<files, portfolio_name, start_date, end_date, todo, result,
                   portfolio_data, initial_investment, monthly_contribution,
                   investments, current_date, last_date, value, i, growth_data,
                   max_drawdown, portfolios_to_compare, stats_data>>

\* one iteration of the loop of lines 300-313
CompareTrace ==
    /\ pc = "cmp_traces"
    /\ pending # <<>>
    /\ fig' = AddTrace(fig, Head(pending),
                       get_portfolio_data(files, Head(pending), start_date, end_date))
    /\ pending' = Tail(pending)
    /\ UNCHANGED <<pc, files, portfolio_name, start_date, end_date, todo, result,
                   portfolio_data, initial_investment, monthly_contribution,
                   investments, current_date, last_date, value, i, growth_data,
                   max_drawdown, portfolios_to_compare, stats_data>>

\* lines 315-329: the chart is shown, the statistics loop begins
CompareChart ==
    /\ pc = "cmp_traces"
    /\ pending = <<>>
    /\ stats_data' = <<>>
    /\ pending' = portfolios_to_compare
    /\ pc' = "cmp_stats"
    /\ UNCHANGED <<files, portfolio_name, start_date, end_date, todo, result,
                   portfolio_data, initial_investment, monthly_contribution,
                   investments, current_date, last_date, value, i, growth_data,
                   max_drawdown, portfolios_to_compare, fig>>

\* one iteration of the loop of lines 331-353
CompareStatsRow ==
    /\ pc = "cmp_stats"
    /\ pending # <<>>
    /\ stats_data' = AppendStats(stats_data, Head(pending),
                        get_portfolio_data(files, Head(pending), start_date, end_date))
    /\ pending' = Tail(pending)
    /\ UNCHANGED <<pc, files, portfolio_name, start_date, end_date, todo, result,
                   portfolio_data, initial_investment, monthly_contribution,
                   investments, current_date, last_date, value, i, growth_data,
                   max_drawdown, portfolios_to_compare, fig>>

\* lines 355-358: the table is shown
CompareTable ==
    /\ pc = "cmp_stats"
    /\ pending = <<>>
    /\ pc' = "cmp_done"
    /\ UNCHANGED <<files, portfolio_name, start_date, end_date, todo, result,
                   portfolio_data, initial_investment, monthly_contribution,
                   investments, current_date, last_date, value, i, growth_data,
                   max_drawdown, portfolios_to_compare, pending, fig, stats_data>>

(* The data files and the selection the button is clicked with.            *)

\* the sequences of at most n distinct names of S
RECURSIVE Selections(_, _)
Selections(S, n) ==
    IF n = 0 THEN {<<>>}
    ELSE LET shorter == Selections(S, n - 1)
         IN  shorter \cup
             {Append(q, x) : q \in {r \in shorter : Len(r) = n - 1},
                             x \in S}

Distinct(q) == \A a, b \in 1..Len(q) : a # b => q[a] # q[b]

\* a file of two rows; the second close differs from file to file
ComparedFile(f) ==
    FileWith(<<Timestamp(2024, 1, 2), Timestamp(2024, 1, 3)>>,
             <<2, IF f \in {"HistoricalPrices_VT.csv", "HistoricalPrices_VTSAX.csv"}
                  THEN 1 ELSE 3>>)

CmpInit ==
    /\ pc = "cmp_call"
    /\ \E present \in SUBSET FileNames :
          files = [f \in FileNames |->
                     IF f \in present THEN ComparedFile(f) ELSE Missing]
    /\ portfolios_to_compare \in
          {q \in Selections(DOMAIN portfolios, MaxSelected) : Distinct(q)}
    /\ start_date = Timestamp(2024, 1, 2)
    /\ end_date = Timestamp(2024, 1, 3)
    /\ pending = <<>>
    /\ fig = <<>>
    /\ stats_data = <<>>
    /\ portfolio_name = ""
    /\ todo = <<>>
    /\ result = None
    /\ portfolio_data = None
    /\ initial_investment = 0
    /\ monthly_contribution = 0
    /\ investments = <<>>
    /\ current_date = 0
    /\ last_date = 0
    /\ value = NaN
    /\ i = 0
    /\ growth_data = Idle
    /\ max_drawdown = NaN

CmpNext ==
    CompareClick \/ CompareTrace \/ CompareChart \/ CompareStatsRow \/ CompareTable

CmpSpec == CmpInit /\ [][CmpNext]_vars

----------------------------------------------------------------------------
(* Any one call of the three.                                              *)

Init == AggInit \/ SimInit \/ StatsInit

Next == AggNext \/ SimNext \/ StatsNext

Spec == Init /\ [][Next]_vars

----------------------------------------------------------------------------
(* Properties.                                                             *)

MonthOf(ts) == ts \div 32

SimReturnedTrajectory ==
    pc = "sim_done" /\ growth_data.raised = "" /\ ~growth_data.none

\* row k is the earliest row of its calendar month
EarliestOfMonth(T, k) ==
    \A j \in 1..Len(T) : MonthOf(T[j].date) = MonthOf(T[k].date) => j >= k

GpdReturnedFrame ==
    pc = "gpd_done" /\ portfolio_name \in DOMAIN portfolios /\ ~portfolio_data.none

Holdings == portfolios[portfolio_name]

\* the tickers of the requested portfolio whose data file can be loaded
AvailableTickers ==
    {Holdings[k].ticker : k \in {j \in 1..Len(Holdings) :
                                   files[file_mapping[Holdings[j].ticker]].exists}}

FileRows(t) == files[file_mapping[t]].rows

InRangeDates(t) ==
    {FileRows(t)[k].date : k \in {j \in 1..Len(FileRows(t)) :
        FileRows(t)[j].date >= start_date /\ FileRows(t)[j].date <= end_date}}

CloseOn(t, d) ==
    FileRows(t)[CHOOSE k \in 1..Len(FileRows(t)) : FileRows(t)[k].date = d].close

EarlierDates(t, d) ==
    {FileRows(t)[k].date : k \in {j \in 1..Len(FileRows(t)) : FileRows(t)[j].date < d}}

\* ticker t has an observation on d and one before it
HasDefinedReturn(t, d) ==
    /\ \E k \in 1..Len(FileRows(t)) : FileRows(t)[k].date = d
    /\ EarlierDates(t, d) # {}

\* close(d) / close(previous observation) - 1, and 0 where that is absent
ReturnOrZero(t, d) ==
    IF HasDefinedReturn(t, d)
    THEN LET prev == CHOOSE x \in EarlierDates(t, d) :
                         \A y \in EarlierDates(t, d) : y <= x
         IN  RSub(RDiv(Num(CloseOn(t, d)), Num(CloseOn(t, prev))), Num(1))
    ELSE Num(0)

RECURSIVE ExpectedReturn(_, _)
ExpectedReturn(hs, d) ==
    IF hs = <<>> THEN Num(0)
    ELSE RAdd(IF Head(hs).ticker \in AvailableTickers
              THEN RMul(Head(hs).weight, ReturnOrZero(Head(hs).ticker, d))
              ELSE Num(0),
              ExpectedReturn(Tail(hs), d))

NonDecreasing(s) == \A k \in 2..Len(s) : RLe(s[k - 1], s[k])

StatsComputed == pc = "stats_done" /\ ~portfolio_data.none

\* C1: every calendar month after the first date's month that holds a series
\* date receives exactly one monthly contribution, on its earliest date; for
\* 13 consecutive months, 10000 initial and 500 monthly there are 12
\* contributions and the final cumulative contribution is 16000.
C1_EveryMonthContributes ==
    (SimReturnedTrajectory /\ initial_investment > 0 /\ monthly_contribution >= 0) =>
        LET T == growth_data.rows IN
        /\ \A k \in 2..Len(T) :
              MonthOf(T[k].date) > MonthOf(T[1].date) =>
                 T[k].contribution =
                    IF EarliestOfMonth(T, k) THEN Num(monthly_contribution) ELSE Num(0)
        /\ (portfolio_data = ThirteenMonths /\ initial_investment = 10000
              /\ monthly_contribution = 500) =>
              /\ Cardinality({k \in 2..Len(T) : T[k].contribution = Num(500)}) = 12
              /\ T[Len(T)].cumulative_contribution = Num(16000)

\* C2: portfolio_value[0] is the initial investment, and each later value is
\* the previous value grown by that date's return plus that date's
\* contribution, the contribution earning nothing on its own date.
C2_ValueRecurrence ==
    SimReturnedTrajectory =>
        LET T == growth_data.rows IN
        /\ Len(T) = Len(portfolio_data.rows)
        /\ T[1].portfolio_value = Num(initial_investment)
        /\ \A k \in 2..Len(T) :
              /\ T[k].return = portfolio_data.rows[k].portfolio_return
              /\ T[k].portfolio_value =
                    RAdd(RMul(T[k - 1].portfolio_value, RAdd(Num(1), T[k].return)),
                         T[k].contribution)

C2_Witness ==
    /\ SimReturnedTrajectory
    /\ initial_investment = 10000
    /\ \E k \in 2..Len(growth_data.rows) :
          /\ growth_data.rows[k].contribution = Num(500)
          /\ growth_data.rows[k].return = Rat(1, 10)
          /\ growth_data.rows[k].portfolio_value # growth_data.rows[k - 1].portfolio_value

\* C3: the dates of the table get_portfolio_data returns are the union of the
\* in-range dates of the portfolio's available tickers.
C3_DatesAreUnion ==
    GpdReturnedFrame =>
        {portfolio_data.rows[k].date : k \in 1..Len(portfolio_data.rows)}
            = UNION {InRangeDates(t) : t \in AvailableTickers}

\* C4: for a known portfolio get_portfolio_data returns None exactly when no
\* ticker of it is available; otherwise the unavailable tickers are skipped
\* and the table carries the weighted columns of the available ones only.
C4_NoneIffNoTicker ==
    (pc = "gpd_done" /\ portfolio_name \in DOMAIN portfolios) =>
        /\ portfolio_data.none <=> AvailableTickers = {}
        /\ \A k \in 1..Len(portfolio_data.rows) :
              DOMAIN portfolio_data.rows[k].weighted = AvailableTickers

C4_Witness ==
    /\ GpdReturnedFrame
    /\ ~files["HistoricalPrices_VT.csv"].exists
    /\ files["HistoricalPrices_VBTLX.csv"].exists
    /\ Len(portfolio_data.rows) >= 2
    /\ portfolio_data.rows[2].portfolio_return # Num(0)

\* C5: on every date of the output, portfolio_return is the sum over the
\* available tickers of weight times the ticker's daily return on that date,
\* an absent return counting 0; the 0.6/0.4 example gives [0, 0.006, 0.008].
C5_WeightedSum ==
    GpdReturnedFrame =>
        /\ \A k \in 1..Len(portfolio_data.rows) :
              portfolio_data.rows[k].portfolio_return =
                 ExpectedReturn(Holdings, portfolio_data.rows[k].date)
        /\ (files = ExampleFiles /\ start_date = ExampleDates[1]
              /\ end_date = ExampleDates[3]) =>
              Column(portfolio_data.rows, "portfolio_return")
                 = <<Num(0), Rat(6, 1000), Rat(8, 1000)>>

C5_Witness ==
    /\ GpdReturnedFrame
    /\ files = ExampleFiles
    /\ start_date = ExampleDates[1]
    /\ end_date = ExampleDates[3]
    /\ Len(portfolio_data.rows) = 3
    /\ portfolio_data.rows[3].weighted["VT"] = Rat(12, 1000)
    /\ portfolio_data.rows[3].weighted["BND"] = Rat(-4, 1000)

C7_InvalidParametersRejected ==
    /\ (pc = "sim_done" /\ (initial_investment <= 0 \/ monthly_contribution < 0))
          => growth_data.none
    /\ (pc = "gpd_done" /\ end_date < start_date) => portfolio_data.none

\* C8: simulate_growth given a table of zero dates fails (IndexError) and
\* returns no trajectory, at no point of the call.
C8_EmptySeriesFails ==
    (pc \in {"sim_call", "sim_months", "sim_values", "sim_done"}
       /\ ~portfolio_data.none /\ portfolio_data.rows = <<>>) =>
        /\ growth_data.none
        /\ pc \in {"sim_call", "sim_done"}
        /\ pc = "sim_done" => growth_data.raised = "IndexError"

C8_Witness ==
    /\ pc = "sim_done"
    /\ ~portfolio_data.none
    /\ portfolio_data.rows = <<>>
    /\ growth_data = Raised("IndexError")
    /\ initial_investment = 10000

\* C9: with a monthly contribution of 0 the cumulative contribution equals
\* the initial investment on every date of the trajectory.
C9_FlatContribution ==
    (SimReturnedTrajectory /\ monthly_contribution = 0) =>
        \A k \in 1..Len(growth_data.rows) :
            growth_data.rows[k].cumulative_contribution = Num(initial_investment)

C9_Witness ==
    /\ SimReturnedTrajectory
    /\ monthly_contribution = 0
    /\ initial_investment = 10000
    /\ Len(growth_data.rows) = 3
    /\ MonthOf(growth_data.rows[2].date) = MonthOf(growth_data.rows[1].date) + 1
    /\ MonthOf(growth_data.rows[3].date) = MonthOf(growth_data.rows[1].date) + 2

\* C10, as the spec states it: for every cumulative-return series the maximum
\* drawdown is <= 0, and it is 0 only if the series never decreases.
C10_DrawdownSign ==
    StatsComputed =>
        /\ RLe(max_drawdown, Num(0))
        /\ max_drawdown = Num(0) =>
              NonDecreasing(Column(portfolio_data.rows, "cumulative_return"))

\* C10, amended: the same for every series whose first cumulative value is
\* positive, later values of any sign included.
C10_DrawdownSignPositiveStart ==
    (StatsComputed /\ RLt(Num(0), portfolio_data.rows[1].cumulative_return)) =>
        /\ RLe(max_drawdown, Num(0))
        /\ max_drawdown = Num(0) =>
              NonDecreasing(Column(portfolio_data.rows, "cumulative_return"))

C10_Witness ==
    /\ StatsComputed
    /\ RLt(Num(0), portfolio_data.rows[1].cumulative_return)
    /\ \E k \in 2..Len(portfolio_data.rows) :
          RLt(portfolio_data.rows[k].cumulative_return, Num(0))
    /\ RLt(max_drawdown, Num(-1))

\* C12: in every state of simulate_growth from the month walk on, the first
\* date's contribution is the initial investment; any other date with a
\* non-zero contribution is the earliest series date of its calendar month,
\* lies in a month after the first date's month and carries exactly one
\* monthly contribution; every remaining date has 0.  In the returned
\* trajectory the total is the initial investment plus one monthly
\* contribution per such date, nothing being carried over from empty months.
C12_ContributionPlacement ==
    (pc \in {"sim_months", "sim_values"} \/ SimReturnedTrajectory) =>
        LET T == IF pc = "sim_done" THEN growth_data.rows ELSE investments IN
        /\ T[1].contribution = Num(initial_investment)
        /\ \A k \in 2..Len(T) :
              T[k].contribution # Num(0) =>
                 /\ EarliestOfMonth(T, k)
                 /\ MonthOf(T[k].date) > MonthOf(T[1].date)
                 /\ T[k].contribution = Num(monthly_contribution)
        /\ pc = "sim_done" =>
              T[Len(T)].cumulative_contribution =
                 Num(initial_investment + monthly_contribution *
                        Cardinality({k \in 2..Len(T) : T[k].contribution # Num(0)}))

\* the two months after the first date's month hold no date, the third
\* holds two: its earliest date gets one contribution, the other none
C12_Witness ==
    /\ SimReturnedTrajectory
    /\ initial_investment = 10000
    /\ monthly_contribution = 500
    /\ Len(growth_data.rows) = 3
    /\ MonthOf(growth_data.rows[2].date) = MonthOf(growth_data.rows[1].date) + 3
    /\ MonthOf(growth_data.rows[3].date) = MonthOf(growth_data.rows[2].date)
    /\ growth_data.rows[2].contribution = Num(500)
    /\ growth_data.rows[3].contribution = Num(0)
    /\ growth_data.rows[3].cumulative_contribution = Num(10500)

\* the number of steps simulate_growth can still take, at most
StepsLeft ==
    CASE pc = "sim_done" -> 0
      [] pc = "sim_values" -> 1 + (Len(investments) - i)
      [] pc = "sim_months" ->
            2 + Len(investments) +
               (IF current_date <= last_date
                THEN MonthOf(last_date) - MonthOf(current_date) + 1 ELSE 0)
      [] pc = "sim_call" ->
            IF portfolio_data.none \/ portfolio_data.rows = <<>> THEN 1
            ELSE 4 + Len(portfolio_data.rows) +
                    (MonthOf(portfolio_data.rows[Len(portfolio_data.rows)].date)
                       - MonthOf(portfolio_data.rows[1].date))
      [] OTHER -> 0

\* the guard of SimCall, of MonthStep or MonthsDone, or of ValueStep or
\* SimReturn holds
SomeStepEnabled ==
    \/ pc = "sim_call"
    \/ pc = "sim_months" /\ (current_date <= last_date \/ current_date > last_date)
    \/ pc = "sim_values" /\ (i < Len(investments) \/ i = Len(investments))

\* C13: for a non-empty series every iteration of the month walk moves
\* current_date forward by at least one calendar month, December to January
\* included; every step of the call brings its return nearer and the call is
\* never stuck before it, so it terminates; the trajectory returned has one
\* row per input date, in the input's order.
C13_WalkTerminates ==
    /\ [][(pc = "sim_months" /\ pc' = "sim_months") =>
             MonthOf(current_date') >= MonthOf(current_date) + 1]_vars
    /\ [][StepsLeft' < StepsLeft]_vars
    /\ [](StepsLeft >= 0 /\ (pc = "sim_done" \/ SomeStepEnabled))
    /\ [](SimReturnedTrajectory =>
             Column(growth_data.rows, "date") = Column(portfolio_data.rows, "date"))

\* a series that starts in December 2023 and ends in February 2024 or later
C13_Witness ==
    /\ SimReturnedTrajectory
    /\ Len(growth_data.rows) = 3
    /\ Year(growth_data.rows[1].date) = 2023
    /\ Month(growth_data.rows[1].date) = 12
    /\ Year(growth_data.rows[2].date) = 2024
    /\ Month(growth_data.rows[2].date) = 1
    /\ Month(growth_data.rows[3].date) >= 2
    /\ current_date > last_date
    /\ Year(current_date) = 2024

\* the aggregation of the named portfolio succeeds: one of its files is there
Succeeds(name) ==
    \E k \in 1..Len(portfolios[name]) :
        files[file_mapping[portfolios[name][k].ticker]].exists

\* C11: the statistics rows and the chart traces of a comparison are exactly
\* the selected portfolios whose aggregation succeeded, in selection order; a
\* portfolio without data leaves out its own row only.
C11_RowsInSelectionOrder ==
    (pc = "cmp_done" /\ portfolios_to_compare # <<>>) =>
        /\ Column(stats_data, "Portfolio") = SelectSeq(portfolios_to_compare, Succeeds)
        /\ Column(fig, "name") = SelectSeq(portfolios_to_compare, Succeeds)

\* three portfolios selected, the second without data
C11_Witness ==
    /\ pc = "cmp_done"
    /\ Len(portfolios_to_compare) = 3
    /\ Succeeds(portfolios_to_compare[1])
    /\ ~Succeeds(portfolios_to_compare[2])
    /\ Succeeds(portfolios_to_compare[3])
    /\ Column(stats_data, "Portfolio") =
          <<portfolios_to_compare[1], portfolios_to_compare[3]>>
    /\ ~IsNaN(stats_data[2].max_drawdown)

====
